---- MODULE Spec2Model ----
(***************************************************************************)
(* wut-server (src/src/main.rs): a HTTPS server that echoes the client's   *)
(* IP address.  The model follows run_server from the loading of the       *)
(* certificate and key, through the bind loop and the spawning of one      *)
(* hyper server task per bind address, the telemetry loop start_counter    *)
(* that run_server awaits, the delivery of SIGINT/SIGTERM to the tokio     *)
(* signal listeners that exist at that moment, and the final join of the   *)
(* server handles.                                                         *)
(*                                                                         *)
(* Time is counted in half seconds, so that Duration::as_secs truncates.   *)
(* The counter is an AtomicU64; the model keeps it far below 2^64.         *)
(* A tokio signal listener is notified only of signals that arrive while   *)
(* it exists; any number of signals may arrive.                            *)
(* A string is the sequence of its characters; load_certs,                 *)
(* load_private_key and parse_addr are operators on the content of the     *)
(* files and on the bind strings, and SpecStartup starts the server with   *)
(* each of the arguments tried.                                            *)
(***************************************************************************)
EXTENDS Integers, Sequences, FiniteSets, TLC

\* ---------------------------------------------------------------- bounds
NBinds == 2          \* length of args.bind (the default has two entries)
MaxConns == 2        \* connections accepted over the whole run
MaxReqs == 2         \* requests carried by one connection
MaxTime == 6         \* half seconds the clock runs for

\* log_interval values tried (u64, seconds); 0 is accepted by the parser
LogIntervals == {0, 1}

\* the remote socket address of the clients of each bind address: the
\* first bind address is IPv4, every other one IPv6 (as in the default list)
PeerOf(i) == IF i = 1 THEN [ip |-> "203.0.113.7", port |-> 50000]
                      ELSE [ip |-> "2001:db8::1", port |-> 50001]

SignalKinds == {"SIGTERM", "SIGINT"}

Binds == 1..NBinds

\* ------------------------------------------------- files, strings, parsers
MaxCerts == 2        \* certificates in the certificate file
MaxKeys == 2         \* keys of one encoding in the key file

DEFAULT_PORT == 11313

\* A string is the sequence of its characters.
DecDigits == <<"0", "1", "2", "3", "4", "5", "6", "7", "8", "9">>
HexLetters == {"a", "b", "c", "d", "e", "f", "A", "B", "C", "D", "E", "F"}

IsDigit(ch) == \E d \in 1..10 : DecDigits[d] = ch
IsHexDigit(ch) == IsDigit(ch) \/ ch \in HexLetters
DigitVal(ch) == (CHOOSE d \in 1..10 : DecDigits[d] = ch) - 1

\* Display of an unsigned integer, as format!("{}") writes it
RECURSIVE to_string(_)
to_string(n) ==
    IF n < 10 THEN <<DecDigits[n + 1]>>
    ELSE to_string(n \div 10) \o <<DecDigits[(n % 10) + 1]>>

\* bind.matches(pat).count() for a one-character pattern
matches_count(s, ch) == Cardinality({i \in 1..Len(s) : s[i] = ch})

\* str::contains
contains(s, pat) ==
    \E i \in 1..(Len(s) - Len(pat) + 1) : SubSeq(s, i, i + Len(pat) - 1) = pat

\* str::split on one character: the pieces between the occurrences of ch
split(s, ch) ==
    LET cuts == {0, Len(s) + 1} \cup {i \in 1..Len(s) : s[i] = ch}
    IN  [k \in 1..(Cardinality(cuts) - 1) |->
            SubSeq(s,
                   (CHOOSE b \in cuts :
                        Cardinality({q \in cuts : q < b}) = k - 1) + 1,
                   (CHOOSE e \in cuts :
                        Cardinality({q \in cuts : q < e}) = k) - 1)]

\* the digits of a numeral after its zero prefix
significant(s) ==
    Len(s) - Cardinality({i \in 1..Len(s) : \A j \in 1..i : s[j] = "0"})

\* value of a decimal numeral
RECURSIVE numeral(_)
numeral(s) ==
    IF s = <<>> THEN 0
    ELSE numeral(SubSeq(s, 1, Len(s) - 1)) * 10 + DigitVal(s[Len(s)])

\* value of a decimal numeral, cap + 1 when it is above `cap` (the parser
\* computes with checked arithmetic); cap has at most five digits
read_number(s, cap) ==
    IF significant(s) > 5 \/ numeral(s) > cap THEN cap + 1 ELSE numeral(s)

\* std::net parser, port: decimal digits, a u16
IsPort(s) ==
    /\ Len(s) >= 1
    /\ \A i \in 1..Len(s) : IsDigit(s[i])
    /\ read_number(s, 65535) <= 65535

\* std::net parser, IPv4 octet: one to three digits, no zero prefix, a u8
IsOctet(s) ==
    /\ Len(s) \in 1..3
    /\ \A i \in 1..Len(s) : IsDigit(s[i])
    /\ (Len(s) > 1 => s[1] # "0")
    /\ read_number(s, 255) <= 255

\* Ipv4Addr::from_str succeeds
IsIpv4(s) ==
    LET parts == split(s, ".")
    IN  Len(parts) = 4 /\ \A i \in 1..4 : IsOctet(parts[i])

\* one group of an IPv6 address: one to four hex digits
IsHexGroup(s) == Len(s) \in 1..4 /\ \A i \in 1..Len(s) : IsHexDigit(s[i])

\* Ipv6Addr::from_str succeeds: eight groups, or fewer around one "::";
\* the last 32 bits may be written as an IPv4 address
IsIpv6(s) ==
    LET parts == split(s, ":")
        last == Len(parts)
        gaps == Cardinality({i \in 1..(Len(s) - 1) :
                                s[i] = ":" /\ s[i + 1] = ":"})
        filled == {i \in 1..last : parts[i] # <<>>}
        v4tail == parts[last] # <<>> /\ IsIpv4(parts[last])
        groups == Cardinality(filled) + (IF v4tail THEN 1 ELSE 0)
    IN  /\ s # <<>>
        /\ gaps <= 1
        /\ (s[1] = ":" => (Len(s) >= 2 /\ s[2] = ":"))
        /\ (s[Len(s)] = ":" => (Len(s) >= 2 /\ s[Len(s) - 1] = ":"))
        /\ \A i \in filled : IsHexGroup(parts[i]) \/ (i = last /\ v4tail)
        /\ \/ gaps = 0 /\ groups = 8
           \/ gaps = 1 /\ groups <= 7

NoAddr == [family |-> "none", ip |-> <<>>, port |-> 0]

ParseOk(a) == [ok |-> TRUE, addr |-> a, err |-> "none"]
ParseErr(e) == [ok |-> FALSE, addr |-> NoAddr, err |-> e]

\* SocketAddr::from_str: "a.b.c.d:port" or "[v6]:port" (scope ids are not
\* modelled); the error is AddrParseError
socket_addr_from_str(s) ==
    LET halves == split(s, ":")
        close == IF \E j \in 1..Len(s) : s[j] = "]"
                 THEN CHOOSE j \in 1..Len(s) :
                          s[j] = "]" /\ \A k \in 1..(j - 1) : s[k] # "]"
                 ELSE 0
        inner == SubSeq(s, 2, close - 1)
        rest == SubSeq(s, close + 1, Len(s))
    IN  IF /\ matches_count(s, ":") = 1
           /\ IsIpv4(halves[1])
           /\ IsPort(halves[2])
        THEN ParseOk([family |-> "v4", ip |-> halves[1],
                      port |-> read_number(halves[2], 65535)])
        ELSE IF /\ s # <<>>
                /\ s[1] = "["
                /\ close > 0
                /\ IsIpv6(inner)
                /\ Len(rest) >= 2
                /\ rest[1] = ":"
                /\ IsPort(Tail(rest))
        THEN ParseOk([family |-> "v6", ip |-> inner,
                      port |-> read_number(Tail(rest), 65535)])
        ELSE ParseErr("AddrParseError")

\* parse_addr with a colon test that takes any colon for a port separator
parse_addr_any_colon(bind) ==
    IF matches_count(bind, ":") >= 1 \/ contains(bind, <<"]", ":">>)
    THEN LET r == socket_addr_from_str(bind)
         IN  IF r.ok THEN r
             ELSE ParseErr("failed to parse bind IP address including port")
    ELSE LET r4 == socket_addr_from_str(
                       bind \o <<":">> \o to_string(DEFAULT_PORT))
             r6 == socket_addr_from_str(
                       <<"[">> \o bind \o <<"]", ":">> \o to_string(DEFAULT_PORT))
         IN  IF r4.ok THEN r4
             ELSE IF r6.ok THEN r6
             ELSE ParseErr("failed to parse bind IP address")

\* parse_addr that takes what follows the last colon for the port when the
\* string is no address
parse_addr_guess(bind) ==
    LET n == Len(bind)
        cut == IF \E j \in 1..n : bind[j] = ":"
               THEN CHOOSE j \in 1..n :
                        bind[j] = ":" /\ \A k \in (j + 1)..n : bind[k] # ":"
               ELSE 0
        guess == socket_addr_from_str(
                     <<"[">> \o SubSeq(bind, 1, cut - 1) \o <<"]", ":">>
                     \o SubSeq(bind, cut + 1, n))
    IN  IF matches_count(bind, ":") = 1 \/ contains(bind, <<"]", ":">>)
        THEN LET r == socket_addr_from_str(bind)
             IN  IF r.ok THEN r
                 ELSE ParseErr("failed to parse bind IP address including port")
        ELSE LET r4 == socket_addr_from_str(
                           bind \o <<":">> \o to_string(DEFAULT_PORT))
                 r6 == socket_addr_from_str(
                           <<"[">> \o bind \o <<"]", ":">>
                           \o to_string(DEFAULT_PORT))
             IN  IF r4.ok THEN r4
                 ELSE IF r6.ok THEN r6
                 ELSE IF cut > 0 /\ guess.ok THEN guess
                 ELSE ParseErr("failed to parse bind IP address")

\* parse_addr: a string with exactly one colon, or with "]:", is parsed as
\* it is; any other string gets the default port, as IPv4 first, then as
\* bracketed IPv6
parse_addr(bind) ==
    IF matches_count(bind, ":") = 1 \/ contains(bind, <<"]", ":">>)
    THEN LET r == socket_addr_from_str(bind)
         IN  IF r.ok THEN r
             ELSE ParseErr("failed to parse bind IP address including port")
    ELSE LET r4 == socket_addr_from_str(
                       bind \o <<":">> \o to_string(DEFAULT_PORT))
             r6 == socket_addr_from_str(
                       <<"[">> \o bind \o <<"]", ":">> \o to_string(DEFAULT_PORT))
         IN  IF r4.ok THEN r4
             ELSE IF r6.ok THEN r6
             ELSE ParseErr("failed to parse bind IP address")

\* A certificate file: whether its PEM sections can be read, and the
\* certificates in it, in file order
CertNames == {"leaf", "intermediate"}

RECURSIVE SeqsUpTo(_, _)
SeqsUpTo(S, n) ==
    IF n = 0 THEN {<<>>}
    ELSE LET shorter == SeqsUpTo(S, n - 1)
         IN  shorter \cup {Append(q, x) : q \in shorter, x \in S}

CertFiles ==
    {[pem |-> "bad", certs |-> <<>>]}
        \cup {[pem |-> "ok", certs |-> q] : q \in SeqsUpTo(CertNames, MaxCerts)}

\* run_server has not assigned `certs` / `key`
NoCerts == <<[der |-> "not loaded"]>>
NoKey == [der |-> [enc |-> "none", n |-> 0]]

LoadOk(v) == [ok |-> TRUE, val |-> v, err |-> "none"]
LoadErr(e) == [ok |-> FALSE, val |-> "none", err |-> e]

\* load_certs, once the file is open: every certificate read, in order
load_certs(file) ==
    IF file.pem = "bad" THEN LoadErr("failed to load certificate")
    ELSE LoadOk([i \in 1..Len(file.certs) |-> [der |-> file.certs[i]]])

\* A key file: how many sections of each encoding it holds
KeyFiles == [ec : 0..MaxKeys, pkcs8 : 0..MaxKeys, rsa : 0..MaxKeys]

\* rustls_pemfile::{ec,pkcs8,rsa}_private_keys: the sections of one
\* encoding, in file order
private_keys(file, enc) ==
    [i \in 1..file[enc] |-> [enc |-> enc, n |-> i]]

\* load_private_key that takes the first key it finds
load_private_key_first(file) ==
    LET ec_keys == private_keys(file, "ec")
        pkcs8_keys == private_keys(file, "pkcs8")
        rsa_keys == private_keys(file, "rsa")
        total_keys == Len(ec_keys) + Len(pkcs8_keys) + Len(rsa_keys)
    IN  IF ec_keys # <<>> THEN LoadOk([der |-> ec_keys[1]])
        ELSE IF pkcs8_keys # <<>> THEN LoadOk([der |-> pkcs8_keys[1]])
        ELSE IF rsa_keys # <<>> THEN LoadOk([der |-> rsa_keys[1]])
        ELSE LoadErr("no private keys found in file")

\* load_private_key, once the file is open and the three decodings have
\* been read: the match on (first EC, first PKCS8, first RSA, total)
load_private_key(file) ==
    LET ec_keys == private_keys(file, "ec")
        pkcs8_keys == private_keys(file, "pkcs8")
        rsa_keys == private_keys(file, "rsa")
        total_keys == Len(ec_keys) + Len(pkcs8_keys) + Len(rsa_keys)
    IN  IF ec_keys # <<>> /\ total_keys = 1
            THEN LoadOk([der |-> ec_keys[1]])
        ELSE IF pkcs8_keys # <<>> /\ total_keys = 1
            THEN LoadOk([der |-> pkcs8_keys[1]])
        ELSE IF rsa_keys # <<>> /\ total_keys = 1
            THEN LoadOk([der |-> rsa_keys[1]])
        ELSE IF total_keys = 0
            THEN LoadErr("no private keys found in file")
        ELSE LoadErr("expected a single private key in file")

\* the bind strings tried
Bind4 == <<"1", ".", "2", ".", "3", ".", "4">>
Bind6 == <<":", ":", "1">>
Groups8 == <<"1", ":", "2", ":", "3", ":", "4", ":", "5", ":", "6", ":",
             "7", ":", "8">>

BindStrings ==
    { Bind4,                                       \* 1.2.3.4
      Bind4 \o <<":", "8", "0">>,                  \* 1.2.3.4:80
      Bind4 \o <<":">>,                            \* 1.2.3.4:
      Bind4 \o <<":", "7", "0", "0", "0", "0">>,   \* 1.2.3.4:70000
      <<"1", ".", "2", ".", "3", ".", "2", "5", "6">>,  \* 1.2.3.256
      Bind6,                                       \* ::1
      <<"[">> \o Bind6 \o <<"]">>,                 \* [::1]
      <<"[">> \o Bind6 \o <<"]", ":", "8", "0">>,  \* [::1]:80
      Bind6 \o <<":", "8", "0">>,                  \* ::1:80
      Groups8,                                     \* 1:2:3:4:5:6:7:8
      Groups8 \o <<":", "8", "0">>,                \* 1:2:3:4:5:6:7:8:80
      <<":", ":", "f", "f", "f", "f", ":">> \o Bind4,   \* ::ffff:1.2.3.4
      <<"h", "o", "s", "t">>,                      \* host
      <<"h", "o", "s", "t", ":", "8", "0">> }      \* host:80

\* the default value of args.bind: 127.0.0.1:11313 first, then [::1]:11313
DefaultBind(i) ==
    IF i = 1
    THEN <<"1", "2", "7", ".", "0", ".", "0", ".", "1", ":">>
             \o to_string(DEFAULT_PORT)
    ELSE <<"[">> \o Bind6 \o <<"]", ":">> \o to_string(DEFAULT_PORT)

\* a certificate file with one certificate, a key file with one PKCS8 key
GoodCertFile == [pem |-> "ok", certs |-> <<"leaf">>]
GoodKeyFile == [ec |-> 0, pkcs8 |-> 1, rsa |-> 0]

VARIABLES
    pc,                  \* where run_server is
    log_interval,        \* args.log_interval
    idx,                 \* position of the bind / spawn / join loop
    servers,             \* bind indices whose Builder was pushed to `servers`
    lst,                 \* state of each spawned server task
    handlerInstalled,    \* tokio has installed the OS signal handlers
    tpc,                 \* where start_counter is
    tsig,                \* signals pending on start_counter's listener
    now,                 \* the monotonic clock
    start_time,          \* start_counter: start_time
    deadline,            \* start_counter: next deadline of `interval`
    prev_elapsed_time,   \* start_counter: prev_elapsed_time
    prev_total_requests, \* start_counter: prev_total_requests
    lastSample,          \* the last sample logged by start_counter
    exit_type,           \* the ExitType start_counter's select returned
    req_counter,         \* the shared AtomicU64
    conns,               \* the connections accepted, in order
    signalled,           \* a signal was sent to the process
    sigInLoop,           \* a handled signal arrived while the loop ran
    sigRunning,          \* ... and while every server task was accepting
    samplesAfterSignal,  \* samples logged after such a signal
    cert_file,           \* the file at args.cert_path
    key_file,            \* the file at args.key_path
    bind,                \* args.bind
    certs,               \* run_server: certs
    key,                 \* run_server: key
    addrs,               \* run_server: addr of each iteration of the bind loop
    error                \* the error run_server returned

vars == <<pc, log_interval, idx, servers, lst, handlerInstalled, tpc,
          tsig, now, start_time, deadline, prev_elapsed_time,
          prev_total_requests, lastSample, exit_type, req_counter, conns,
          signalled, sigInLoop, sigRunning, samplesAfterSignal,
          cert_file, key_file, bind, certs, key, addrs, error>>

telemetryVars == <<tpc, start_time, deadline, prev_elapsed_time,
                   prev_total_requests, lastSample, exit_type,
                   samplesAfterSignal>>
signalVars == <<tsig, handlerInstalled, signalled, sigInLoop, sigRunning>>
serviceVars == <<req_counter, conns>>
fileVars == <<cert_file, key_file, bind>>
loadVars == <<certs, key, addrs, error>>

\* no sample logged yet (n is the number of the sample, from 1)
\* total, rps, rps_tot are what is logged; diff, secs, tot_secs the operands
\* of the two divisions; at, prev_at, prev_total, accepted record when the
\* sample and the one before it were taken and what had been counted then
NoSample == [n |-> 0, total |-> 0, diff |-> 0, secs |-> 0, tot_secs |-> 0,
             rps |-> [kind |-> "finite", num |-> 0, den |-> 1],
             rps_tot |-> [kind |-> "finite", num |-> 0, den |-> 1],
             at |-> 0, prev_at |-> 0, prev_total |-> 0, accepted |-> 0]

\* the process has ended: run_server returned, panicked, or the default
\* disposition of a signal killed the process
Terminal == pc \in {"exit_ok", "exit_err", "panicked", "killed"}

\* the state of the process when run_server is called
ProcessStart ==
    /\ pc = "load_certs"
    /\ log_interval \in LogIntervals
    /\ idx = 1
    /\ servers = {}
    /\ lst = [i \in Binds |-> "none"]
    /\ handlerInstalled = FALSE
    /\ tpc = "none"
    /\ tsig = {}
    /\ now = 0
    /\ start_time = 0
    /\ deadline = 0
    /\ prev_elapsed_time = 0
    /\ prev_total_requests = 0
    /\ lastSample = NoSample
    /\ exit_type = "none"
    /\ req_counter = 0
    /\ conns = <<>>
    /\ signalled = FALSE
    /\ sigInLoop = FALSE
    /\ sigRunning = FALSE
    /\ samplesAfterSignal = 0
    /\ certs = NoCerts
    /\ key = NoKey
    /\ addrs = [i \in Binds |-> NoAddr]
    /\ error = "none"

\* the server is started with a good certificate, a good key and the
\* default bind list
Init ==
    /\ ProcessStart
    /\ cert_file = GoodCertFile
    /\ key_file = GoodKeyFile
    /\ bind = [i \in Binds |-> DefaultBind(i)]

\* the arguments tried at startup: one of them differs from a good one
ArgsTried ==
    {[cert_file |-> f, key_file |-> GoodKeyFile,
      bind |-> [i \in Binds |-> DefaultBind(i)]] : f \in CertFiles}
    \cup
    {[cert_file |-> GoodCertFile, key_file |-> f,
      bind |-> [i \in Binds |-> DefaultBind(i)]] : f \in KeyFiles}
    \cup
    {[cert_file |-> GoodCertFile, key_file |-> GoodKeyFile,
      bind |-> [i \in Binds |-> IF i = j THEN b ELSE DefaultBind(i)]] :
        j \in Binds, b \in BindStrings}

\* the server is started with any of the arguments tried
InitStartup ==
    /\ ProcessStart
    /\ \E a \in ArgsTried :
        /\ cert_file = a.cert_file
        /\ key_file = a.key_file
        /\ bind = a.bind

\* ------------------------------------------------------- run_server: startup

\* load_certs(...)? succeeds
LoadCertsOk ==
    /\ pc = "load_certs"
    /\ load_certs(cert_file).ok
    /\ certs' = load_certs(cert_file).val
    /\ pc' = "load_key"
    /\ UNCHANGED <<log_interval, fileVars, key, addrs, error, idx, servers,
                   lst, now>>
    /\ UNCHANGED <<telemetryVars, signalVars, serviceVars>>

\* load_certs(...)? fails, because the file cannot be opened or because
\* of what is in it: run_server returns the error
LoadCertsFail ==
    /\ pc = "load_certs"
    /\ \E e \in {"failed to open cert_path"}
                  \cup (IF load_certs(cert_file).ok THEN {}
                        ELSE {load_certs(cert_file).err}) :
        error' = e
    /\ pc' = "exit_err"
    /\ UNCHANGED <<log_interval, fileVars, certs, key, addrs, idx, servers,
                   lst, now>>
    /\ UNCHANGED <<telemetryVars, signalVars, serviceVars>>

\* load_private_key(...)? succeeds
LoadKeyOk ==
    /\ pc = "load_key"
    /\ load_private_key(key_file).ok
    /\ key' = load_private_key(key_file).val
    /\ pc' = "bind"
    /\ UNCHANGED <<log_interval, fileVars, certs, addrs, error, idx, servers,
                   lst, now>>
    /\ UNCHANGED <<telemetryVars, signalVars, serviceVars>>

\* the file cannot be opened, or one of the three decodings cannot be read
KeyIoErrors ==
    {"failed to open key_path", "failed to read EC private keys",
     "failed to read PKCS8 private keys", "failed to read RSA private keys"}

\* load_private_key(...)? fails, because the file cannot be read or
\* because of the keys in it
LoadKeyFail ==
    /\ pc = "load_key"
    /\ \E e \in KeyIoErrors
                  \cup (IF load_private_key(key_file).ok THEN {}
                        ELSE {load_private_key(key_file).err}) :
        error' = e
    /\ pc' = "exit_err"
    /\ UNCHANGED <<log_interval, fileVars, certs, key, addrs, idx, servers,
                   lst, now>>
    /\ UNCHANGED <<telemetryVars, signalVars, serviceVars>>

\* the address cannot be bound, or rustls refuses the certificate and key
BindIoErrors == {"AddrIncoming::bind failed", "with_single_cert failed"}

\* parse_addr(bind)?, AddrIncoming::bind(&addr)? or with_single_cert(..)?
\* fails for bind number idx: run_server returns the error; the Builders
\* pushed so far are dropped unserved
BindLoopFail ==
    /\ pc = "bind"
    /\ idx <= NBinds
    /\ \E e \in IF parse_addr(bind[idx]).ok THEN BindIoErrors
                ELSE {parse_addr(bind[idx]).err} :
        error' = e
    /\ pc' = "exit_err"
    /\ UNCHANGED <<log_interval, fileVars, certs, key, addrs, idx, servers,
                   lst, now>>
    /\ UNCHANGED <<telemetryVars, signalVars, serviceVars>>

\* a bind loop that serves each address as soon as it is bound
BindOkEager ==
    /\ pc = "bind"
    /\ idx <= NBinds
    /\ parse_addr(bind[idx]).ok
    /\ addrs' = [addrs EXCEPT ![idx] = parse_addr(bind[idx]).addr]
    /\ servers' = servers \cup {idx}
    /\ lst' = [lst EXCEPT ![idx] = "spawned"]
    /\ idx' = idx + 1
    /\ UNCHANGED <<pc, log_interval, fileVars, certs, key, error, now>>
    /\ UNCHANGED <<telemetryVars, signalVars, serviceVars>>

\* one iteration of the bind loop succeeds: the address is parsed and
\* bound, the acceptor built, servers.push(server)
BindOk ==
    /\ pc = "bind"
    /\ idx <= NBinds
    /\ parse_addr(bind[idx]).ok
    /\ addrs' = [addrs EXCEPT ![idx] = parse_addr(bind[idx]).addr]
    /\ servers' = servers \cup {idx}
    /\ idx' = idx + 1
    /\ UNCHANGED <<pc, log_interval, fileVars, certs, key, error, lst, now>>
    /\ UNCHANGED <<telemetryVars, signalVars, serviceVars>>

\* the bind loop is over; the counter and the service are created
BindLoopDone ==
    /\ pc = "bind"
    /\ idx > NBinds
    /\ pc' = "spawn"
    /\ idx' = 1
    /\ UNCHANGED <<log_interval, fileVars, loadVars, servers, lst, now>>
    /\ UNCHANGED <<telemetryVars, signalVars, serviceVars>>

\* server_handles.push(tokio::spawn(server.serve(..).with_graceful_shutdown(..)))
SpawnServer ==
    /\ pc = "spawn"
    /\ idx <= NBinds
    /\ lst' = [lst EXCEPT ![idx] = "spawned"]
    /\ idx' = idx + 1
    /\ UNCHANGED <<pc, log_interval, fileVars, loadVars, servers, now>>
    /\ UNCHANGED <<telemetryVars, signalVars, serviceVars>>

\* the spawn loop is over: info!("Server started"), start_counter is called
SpawnLoopDone ==
    /\ pc = "spawn"
    /\ idx > NBinds
    /\ pc' = "start_counter"
    /\ UNCHANGED <<log_interval, fileVars, loadVars, idx, servers, lst, now>>
    /\ UNCHANGED <<telemetryVars, signalVars, serviceVars>>

\* ------------------------------------------------------------ signals

\* the ExitType shutdown_signal_helper returns for a signal
ExitTypeOf(k) == IF k = "SIGTERM" THEN "Termination" ELSE "Interrupt"

\* a server task holds signal listeners from its first poll until its
\* shutdown future completes; "notified" is a task whose listeners have a
\* signal pending (the task drops the ExitType)
ListenerRegistered(i) == lst[i] \in {"accepting", "notified"}

\* start_counter holds signal listeners while its select! is pending
CounterRegistered == tpc = "select"

\* start_counter has been entered and has not returned
InLoop == tpc \in {"enter", "select", "compute"}

\* SIGINT or SIGTERM arrives before any signal() call installed a handler:
\* the default disposition ends the process
DeliverKill ==
    /\ ~Terminal
    /\ ~handlerInstalled
    /\ pc' = "killed"
    /\ signalled' = TRUE
    /\ UNCHANGED <<log_interval, fileVars, loadVars, idx, servers, lst, now,
                   tsig,
                   handlerInstalled, sigInLoop, sigRunning>>
    /\ UNCHANGED <<telemetryVars, serviceVars>>

\* SIGINT or SIGTERM arrives with the handlers installed: every listener
\* that exists at this moment is notified, and no other
Deliver(k) ==
    /\ ~Terminal
    /\ handlerInstalled
    /\ lst' = [i \in Binds |->
                 IF ListenerRegistered(i) THEN "notified" ELSE lst[i]]
    /\ tsig' = IF CounterRegistered THEN tsig \cup {k} ELSE tsig
    /\ signalled' = TRUE
    /\ sigInLoop' = (sigInLoop \/ InLoop)
    /\ sigRunning' = (sigRunning \/ (InLoop /\ \A i \in Binds : lst[i] = "accepting"))
    /\ UNCHANGED <<pc, log_interval, fileVars, loadVars, idx, servers, now,
                   handlerInstalled>>
    /\ UNCHANGED <<telemetryVars, serviceVars>>

\* ------------------------------------------------------------ the clock

Advance ==
    /\ ~Terminal
    /\ InLoop
    /\ now < MaxTime
    /\ now' = now + 1
    /\ UNCHANGED <<pc, log_interval, fileVars, loadVars, idx, servers, lst>>
    /\ UNCHANGED <<telemetryVars, signalVars, serviceVars>>

\* ------------------------------------------------------------ start_counter

\* Duration::from_secs, in half seconds
from_secs(s) == s * 2

\* Duration::as_secs: the whole seconds of a duration
as_secs(d) == d \div 2

\* `a as f64 / b as f64`: a quotient, or what IEEE division by zero gives
f64_div(a, b) ==
    IF b # 0 THEN [kind |-> "finite", num |-> a, den |-> b]
    ELSE IF a = 0 THEN [kind |-> "NaN", num |-> a, den |-> b]
    ELSE [kind |-> "inf", num |-> a, den |-> b]

\* time::interval(Duration::from_secs(0)) panics: the period must be non-zero
StartCounterPanic ==
    /\ pc = "start_counter"
    /\ tpc = "none"
    /\ log_interval = 0
    /\ pc' = "panicked"
    /\ UNCHANGED <<log_interval, fileVars, loadVars, idx, servers, lst, now>>
    /\ UNCHANGED <<telemetryVars, signalVars, serviceVars>>

\* lines 142-146: start_time, the interval, and its first tick, which
\* completes at once and is not reported
StartCounter ==
    /\ pc = "start_counter"
    /\ tpc = "none"
    /\ log_interval > 0
    /\ start_time' = now
    /\ prev_elapsed_time' = 0
    /\ prev_total_requests' = 0
    /\ deadline' = now + from_secs(log_interval)
    /\ tpc' = "enter"
    /\ UNCHANGED <<pc, log_interval, fileVars, loadVars, idx, servers, lst,
                   now, lastSample,
                   exit_type, samplesAfterSignal>>
    /\ UNCHANGED <<signalVars, serviceVars>>

\* the first poll of a select!: server_shutdown_counter() is a new future,
\* whose first poll creates new signal listeners
SelectPoll ==
    /\ ~Terminal
    /\ tpc = "enter"
    /\ tpc' = "select"
    /\ tsig' = {}
    /\ handlerInstalled' = TRUE
    /\ UNCHANGED <<pc, log_interval, fileVars, loadVars, idx, servers, lst,
                   now,
                   signalled, sigInLoop, sigRunning>>
    /\ UNCHANGED <<start_time, deadline, prev_elapsed_time,
                   prev_total_requests, lastSample, exit_type,
                   samplesAfterSignal>>
    /\ UNCHANGED serviceVars

\* select! completes with interval.tick(): the shutdown future is dropped
\* with its listeners and whatever was pending on them
SelectTick ==
    /\ ~Terminal
    /\ tpc = "select"
    /\ now >= deadline
    /\ deadline' = deadline + from_secs(log_interval)
    /\ tsig' = {}
    /\ tpc' = "compute"
    /\ UNCHANGED <<pc, log_interval, fileVars, loadVars, idx, servers, lst,
                   now,
                   handlerInstalled, signalled, sigInLoop, sigRunning>>
    /\ UNCHANGED <<start_time, prev_elapsed_time, prev_total_requests,
                   lastSample, exit_type, samplesAfterSignal>>
    /\ UNCHANGED serviceVars

\* select! completes with server_shutdown_counter(): break, start_counter
\* returns and run_server goes on to await the server handles
SelectShutdown ==
    /\ ~Terminal
    /\ tpc = "select"
    /\ \E k \in tsig : exit_type' = ExitTypeOf(k)
    /\ tsig' = {}
    /\ tpc' = "done"
    /\ pc' = "join"
    /\ idx' = 1
    /\ UNCHANGED <<log_interval, fileVars, loadVars, servers, lst, now,
                   handlerInstalled,
                   signalled, sigInLoop, sigRunning>>
    /\ UNCHANGED <<start_time, deadline, prev_elapsed_time,
                   prev_total_requests, lastSample, samplesAfterSignal>>
    /\ UNCHANGED serviceVars

\* a sample whose elapsed-time subtraction has its operands exchanged
SampleOperandsSwapped ==
    /\ ~Terminal
    /\ tpc = "compute"
    /\ LET total_requests == req_counter
           total_requests_diff == total_requests - prev_total_requests
           elapsed == now - start_time
           elapsed_time == prev_elapsed_time - elapsed
       IN /\ lastSample' =
                [n |-> lastSample.n + 1,
                 total |-> total_requests,
                 diff |-> total_requests_diff,
                 secs |-> as_secs(elapsed_time),
                 tot_secs |-> as_secs(elapsed),
                 rps |-> f64_div(total_requests_diff, as_secs(elapsed_time)),
                 rps_tot |-> f64_div(total_requests, as_secs(elapsed)),
                 at |-> elapsed,
                 prev_at |-> lastSample.at,
                 prev_total |-> lastSample.total,
                 accepted |-> Len(conns)]
          /\ prev_elapsed_time' = elapsed_time
          /\ prev_total_requests' = total_requests
    /\ samplesAfterSignal' =
          IF sigInLoop THEN samplesAfterSignal + 1 ELSE samplesAfterSignal
    /\ tpc' = "enter"
    /\ UNCHANGED <<pc, log_interval, fileVars, loadVars, idx, servers, lst,
                   now, start_time,
                   deadline, exit_type>>
    /\ UNCHANGED <<signalVars, serviceVars>>

\* lines 163-175: one sample is computed and logged
Sample ==
    /\ ~Terminal
    /\ tpc = "compute"
    /\ LET total_requests == req_counter
           total_requests_diff == total_requests - prev_total_requests
           elapsed == now - start_time
           elapsed_time == elapsed - prev_elapsed_time
       IN /\ lastSample' =
                [n |-> lastSample.n + 1,
                 total |-> total_requests,
                 diff |-> total_requests_diff,
                 secs |-> as_secs(elapsed_time),
                 tot_secs |-> as_secs(elapsed),
                 rps |-> f64_div(total_requests_diff, as_secs(elapsed_time)),
                 rps_tot |-> f64_div(total_requests, as_secs(elapsed)),
                 at |-> elapsed,
                 prev_at |-> lastSample.at,
                 prev_total |-> lastSample.total,
                 accepted |-> Len(conns)]
          /\ prev_elapsed_time' = elapsed_time
          /\ prev_total_requests' = total_requests
    /\ samplesAfterSignal' =
          IF sigInLoop THEN samplesAfterSignal + 1 ELSE samplesAfterSignal
    /\ tpc' = "enter"
    /\ UNCHANGED <<pc, log_interval, fileVars, loadVars, idx, servers, lst,
                   now, start_time,
                   deadline, exit_type>>
    /\ UNCHANGED <<signalVars, serviceVars>>

\* ------------------------------------------------------------ server tasks

\* the first poll of a server task: its graceful-shutdown future
\* server_shutdown_signal() creates its signal listeners
ListenerFirstPoll(i) ==
    /\ ~Terminal
    /\ lst[i] = "spawned"
    /\ lst' = [lst EXCEPT ![i] = "accepting"]
    /\ handlerInstalled' = TRUE
    /\ UNCHANGED <<pc, log_interval, fileVars, loadVars, idx, servers, now,
                   tsig, signalled,
                   sigInLoop, sigRunning>>
    /\ UNCHANGED <<telemetryVars, serviceVars>>

\* AtomicU64::fetch_add(1, SeqCst) that loses an update made since its read
fetch_add_lost(c) == IF c >= 1 THEN c ELSE c + 1

\* AtomicU64::fetch_add(1, SeqCst): the new value of the counter
fetch_add(c) == c + 1

\* format!("{}", val.remote_addr().ip())
ip_text(addr) == addr.ip

\* lines 105-111: remote_addr from socket.io()
RemoteAddr(io) == IF io.some THEN ip_text(io.addr) ELSE "error"

\* what socket.io() can return for a connection from peer p
IoResults(p) == {[some |-> TRUE, addr |-> p], [some |-> FALSE, addr |-> p]}

\* a server task that leaves the increment to the service of the connection
AcceptUncounted(i) ==
    /\ ~Terminal
    /\ lst[i] = "accepting"
    /\ Len(conns) < MaxConns
    /\ \E io \in IoResults(PeerOf(i)) :
          conns' = Append(conns, [lst |-> i, io_some |-> io.some,
                                  remote_addr |-> RemoteAddr(io),
                                  open |-> TRUE, reqs |-> 0, bodies |-> {}])
    /\ UNCHANGED <<pc, log_interval, fileVars, loadVars, idx, servers, lst,
                   now, req_counter>>
    /\ UNCHANGED <<telemetryVars, signalVars>>

\* a server task accepts a connection: the make_service_fn closure runs
\* (the task polls its shutdown future before it accepts)
Accept(i) ==
    /\ ~Terminal
    /\ lst[i] = "accepting"
    /\ Len(conns) < MaxConns
    /\ \E io \in IoResults(PeerOf(i)) :
          conns' = Append(conns, [lst |-> i, io_some |-> io.some,
                                  remote_addr |-> RemoteAddr(io),
                                  open |-> TRUE, reqs |-> 0, bodies |-> {}])
    /\ req_counter' = fetch_add(req_counter)
    /\ UNCHANGED <<pc, log_interval, fileVars, loadVars, idx, servers, lst,
                   now>>
    /\ UNCHANGED <<telemetryVars, signalVars>>

\* a service that counts every request it answers
RequestCounted(c) ==
    /\ ~Terminal
    /\ c \in 1..Len(conns)
    /\ conns[c].open
    /\ conns[c].reqs < MaxReqs
    /\ conns' = [conns EXCEPT ![c].reqs = @ + 1,
                              ![c].bodies = @ \cup {conns[c].remote_addr}]
    /\ req_counter' = fetch_add(req_counter)
    /\ UNCHANGED <<pc, log_interval, fileVars, loadVars, idx, servers, lst,
                   now>>
    /\ UNCHANGED <<telemetryVars, signalVars>>

\* a request arrives on an open connection: the service_fn closure answers
Request(c) ==
    /\ ~Terminal
    /\ c \in 1..Len(conns)
    /\ conns[c].open
    /\ conns[c].reqs < MaxReqs
    /\ conns' = [conns EXCEPT ![c].reqs = @ + 1,
                              ![c].bodies = @ \cup {conns[c].remote_addr}]
    /\ UNCHANGED <<pc, log_interval, fileVars, loadVars, idx, servers, lst,
                   now, req_counter>>
    /\ UNCHANGED <<telemetryVars, signalVars>>

\* the client closes a connection
ClientClose(c) ==
    /\ ~Terminal
    /\ c \in 1..Len(conns)
    /\ conns[c].open
    /\ lst[conns[c].lst] # "draining"
    /\ conns' = [conns EXCEPT ![c].open = FALSE]
    /\ UNCHANGED <<pc, log_interval, fileVars, loadVars, idx, servers, lst,
                   now, req_counter>>
    /\ UNCHANGED <<telemetryVars, signalVars>>

\* a server task that is stopped only once start_counter has returned
ListenerShutdownAfterCounter(i) ==
    /\ ~Terminal
    /\ lst[i] = "notified"
    /\ tpc = "done"
    /\ lst' = [lst EXCEPT ![i] = "draining"]
    /\ UNCHANGED <<pc, log_interval, fileVars, loadVars, idx, servers, now,
                   tsig,
                   handlerInstalled, signalled, sigInLoop, sigRunning>>
    /\ UNCHANGED <<telemetryVars, serviceVars>>

\* the shutdown future of a server task completes: graceful shutdown
\* begins, the listening socket is dropped
ListenerShutdown(i) ==
    /\ ~Terminal
    /\ lst[i] = "notified"
    /\ lst' = [lst EXCEPT ![i] = "draining"]
    /\ UNCHANGED <<pc, log_interval, fileVars, loadVars, idx, servers, now,
                   tsig,
                   handlerInstalled, signalled, sigInLoop, sigRunning>>
    /\ UNCHANGED <<telemetryVars, serviceVars>>

\* graceful shutdown closes a connection of a draining server
DrainClose(c) ==
    /\ ~Terminal
    /\ c \in 1..Len(conns)
    /\ conns[c].open
    /\ lst[conns[c].lst] = "draining"
    /\ conns' = [conns EXCEPT ![c].open = FALSE]
    /\ UNCHANGED <<pc, log_interval, fileVars, loadVars, idx, servers, lst,
                   now, req_counter>>
    /\ UNCHANGED <<telemetryVars, signalVars>>

\* a draining server has no connection left: its task returns Ok(())
ListenerDrained(i) ==
    /\ ~Terminal
    /\ lst[i] = "draining"
    /\ \A c \in 1..Len(conns) : conns[c].lst = i => ~conns[c].open
    /\ lst' = [lst EXCEPT ![i] = "done_ok"]
    /\ UNCHANGED <<pc, log_interval, fileVars, loadVars, idx, servers, now>>
    /\ UNCHANGED <<telemetryVars, signalVars, serviceVars>>

\* a server task ends on its own: with a hyper::Error, or by a panic
ListenerFail(i, outcome) ==
    /\ ~Terminal
    /\ lst[i] = "accepting"
    /\ lst' = [lst EXCEPT ![i] = outcome]
    /\ UNCHANGED <<pc, log_interval, fileVars, loadVars, idx, servers, now,
                   tsig,
                   handlerInstalled, signalled, sigInLoop, sigRunning>>
    /\ UNCHANGED <<telemetryVars, serviceVars>>

\* the server task has ended, whatever its result
ListenerEnded(i) == lst[i] \in {"done_ok", "done_err", "task_panicked"}

\* ------------------------------------------------- run_server: the join loop

\* a join loop that does not await the handle
JoinOkNoWait ==
    /\ pc = "join"
    /\ idx <= NBinds
    /\ idx' = idx + 1
    /\ UNCHANGED <<pc, log_interval, fileVars, loadVars, servers, lst, now>>
    /\ UNCHANGED <<telemetryVars, signalVars, serviceVars>>

\* server_handle.await?.unwrap() with Ok(Ok(()))
JoinOk ==
    /\ pc = "join"
    /\ idx <= NBinds
    /\ lst[idx] = "done_ok"
    /\ idx' = idx + 1
    /\ UNCHANGED <<pc, log_interval, fileVars, loadVars, servers, lst, now>>
    /\ UNCHANGED <<telemetryVars, signalVars, serviceVars>>

\* server_handle.await?.unwrap() with Ok(Err(e)): unwrap panics
JoinUnwrapPanic ==
    /\ pc = "join"
    /\ idx <= NBinds
    /\ lst[idx] = "done_err"
    /\ pc' = "panicked"
    /\ UNCHANGED <<log_interval, fileVars, loadVars, idx, servers, lst, now>>
    /\ UNCHANGED <<telemetryVars, signalVars, serviceVars>>

\* server_handle.await?.unwrap() with Err(JoinError): ? returns the error
JoinError ==
    /\ pc = "join"
    /\ idx <= NBinds
    /\ lst[idx] = "task_panicked"
    /\ pc' = "exit_err"
    /\ UNCHANGED <<log_interval, fileVars, loadVars, idx, servers, lst, now>>
    /\ UNCHANGED <<telemetryVars, signalVars, serviceVars>>

\* every handle was awaited: Ok(())
JoinDone ==
    /\ pc = "join"
    /\ idx > NBinds
    /\ pc' = "exit_ok"
    /\ UNCHANGED <<log_interval, fileVars, loadVars, idx, servers, lst, now>>
    /\ UNCHANGED <<telemetryVars, signalVars, serviceVars>>

\* ------------------------------------------------------------ specification

\* what run_server and its tasks do when all goes well at startup
Startup ==
    \/ LoadCertsOk \/ LoadKeyOk \/ BindOk \/ BindLoopDone
    \/ SpawnServer \/ SpawnLoopDone
    \/ StartCounterPanic \/ StartCounter \/ SelectPoll
    \/ \E i \in Binds : ListenerFirstPoll(i)

\* a startup step fails
StartupFailure == LoadCertsFail \/ LoadKeyFail \/ BindLoopFail

\* the telemetry loop ticks
Ticking == Advance \/ SelectTick \/ Sample

\* clients connect
Connecting == \E i \in Binds : Accept(i)

\* clients send requests and hang up
Traffic ==
    \/ \E c \in 1..MaxConns : Request(c)
    \/ \E c \in 1..MaxConns : ClientClose(c)

\* signals arrive, server tasks fail, and what the program does then
Stopping ==
    \/ DeliverKill
    \/ \E k \in SignalKinds : Deliver(k)
    \/ \E i \in Binds, o \in {"done_err", "task_panicked"} : ListenerFail(i, o)
    \/ SelectShutdown
    \/ \E i \in Binds : ListenerShutdown(i)
    \/ \E i \in Binds : ListenerDrained(i)
    \/ JoinOk \/ JoinUnwrapPanic \/ JoinError \/ JoinDone

\* graceful shutdown closes the connections of a draining server
Draining == \E c \in 1..MaxConns : DrainClose(c)

\* the whole program in every environment
Next ==
    \/ Startup \/ StartupFailure \/ Ticking \/ Connecting \/ Traffic
    \/ Stopping \/ Draining

Spec == Init /\ [][Next]_vars

\* The product of clock, traffic and signals is too large to enumerate, so
\* each property is checked in the environment that bears on it.

\* SpecService: startup may fail, clients connect and send requests; the
\* run ends before the first tick and no signal arrives
NextService == Startup \/ StartupFailure \/ Connecting \/ Traffic

SpecService == Init /\ [][NextService]_vars

\* SpecTelemetry: clients connect while the clock runs and the loop ticks
NextTelemetry == Startup \/ Ticking \/ Connecting

SpecTelemetry == Init /\ [][NextTelemetry]_vars

\* SpecShutdown: clients connect, signals arrive and server tasks fail;
\* the run ends before the first tick
NextShutdown == Startup \/ StartupFailure \/ Connecting \/ Stopping \/ Draining

SpecShutdown == Init /\ [][NextShutdown]_vars

\* SpecLifecycle: signals arrive and server tasks fail while the loop
\* ticks; no client connects
NextLifecycle == Startup \/ StartupFailure \/ Ticking \/ Stopping

SpecLifecycle == Init /\ [][NextLifecycle]_vars

\* SpecStartup: the server is started with each of the arguments tried;
\* the run ends when start_counter is called
NextStartup ==
    \/ LoadCertsOk \/ LoadKeyOk \/ BindOk \/ BindLoopDone
    \/ SpawnServer \/ SpawnLoopDone
    \/ StartupFailure

SpecStartup == InitStartup /\ [][NextStartup]_vars

\* what the tokio runtime guarantees: a task that can make a step is
\* polled, and time passes; no signal, client or failure is ever owed
MainTaskStep ==
    \/ LoadCertsOk \/ LoadKeyOk \/ BindOk \/ BindLoopDone
    \/ SpawnServer \/ SpawnLoopDone
    \/ StartCounterPanic \/ StartCounter \/ SelectPoll \/ Sample
    \/ JoinOk \/ JoinUnwrapPanic \/ JoinError \/ JoinDone

ServerTaskStep(i) ==
    ListenerFirstPoll(i) \/ ListenerShutdown(i) \/ ListenerDrained(i)

Fairness ==
    /\ WF_vars(MainTaskStep)
    /\ WF_vars(SelectTick)
    /\ WF_vars(SelectShutdown)
    /\ \A i \in Binds : WF_vars(ServerTaskStep(i))
    /\ WF_vars(Advance)

FairLifecycle == SpecLifecycle /\ Fairness

TypeOK ==
    /\ pc \in {"load_certs", "load_key", "bind", "spawn", "start_counter",
               "join", "exit_ok", "exit_err", "panicked", "killed"}
    /\ tpc \in {"none", "enter", "select", "compute", "done"}
    /\ \A i \in Binds : lst[i] \in {"none", "spawned", "accepting", "notified",
                                    "draining", "done_ok", "done_err",
                                    "task_panicked"}
    /\ req_counter \in 0..MaxConns
    /\ now \in 0..MaxTime

\* ------------------------------------------------------------ properties

\* a server task ended on its own, with an error or a panic
ListenerFailure == \E i \in Binds : lst[i] \in {"done_err", "task_panicked"}

\* run_server awaits start_counter and every server task has ended
AllListenersExited ==
    pc = "start_counter" /\ \A i \in Binds : ListenerEnded(i)

\* requests answered over all connections
RECURSIVE Dispatched(_)
Dispatched(cs) == IF cs = <<>> THEN 0 ELSE Head(cs).reqs + Dispatched(Tail(cs))

\* C1: a signal handled while the server runs (every server task is
\* accepting, start_counter is at whatever step of its loop) leads to
\* run_server returning Ok, unless a server task fails on its own.
C1_SignalLeadsToExitOk ==
    (sigRunning /\ ~ListenerFailure) ~> (pc = "exit_ok" \/ ListenerFailure)

\* C2: when every server task has ended on its own and no signal is sent,
\* run_server eventually returns.
C2_ListenersGoneLeadsToReturn ==
    (AllListenersExited /\ ~signalled) ~> (Terminal \/ signalled)

\* C3: every reported interval rate is the count difference between this
\* tick and the one before, divided by the whole seconds elapsed between
\* the two ticks.
C3_IntervalRate ==
    lastSample.n >= 1 =>
        lastSample.rps = f64_div(lastSample.total - lastSample.prev_total,
                                 as_secs(lastSample.at - lastSample.prev_at))

\* C4: no sample is reported whose interval rate or cumulative rate was
\* computed with a zero divisor.
C4_NoZeroDenominator ==
    lastSample.n >= 1 =>
        /\ lastSample.rps.kind = "finite"
        /\ lastSample.rps_tot.kind = "finite"

\* C5: the counter equals the number of requests answered.
C5_CounterCountsRequests == req_counter = Dispatched(conns)

\* C6: no increment is lost: the counter equals the number of increments
\* made, a load made after N increments returns N, and successive loads
\* never decrease.
C6_NoLostUpdates ==
    /\ req_counter = Len(conns)
    /\ prev_total_requests <= req_counter
    /\ lastSample.total = lastSample.accepted
    /\ lastSample.prev_total <= lastSample.total
    /\ lastSample.diff >= 0

\* C6 witness: two server tasks have each incremented the counter and a
\* load made after both increments was logged
C6_Witness ==
    /\ Len(conns) >= 2
    /\ \E c, d \in 1..Len(conns) : conns[c].lst # conns[d].lst
    /\ lastSample.n >= 1
    /\ lastSample.total >= 2

\* C7: every response body is the textual IP address of the remote peer
\* of the connection the request arrived on.
C7_BodyIsPeerIp ==
    \A c \in 1..Len(conns) :
        conns[c].bodies \subseteq {ip_text(PeerOf(conns[c].lst))}

\* C8: a server task is spawned, and a connection served, only after every
\* bind address was bound; when startup fails run_server returns the error
\* with no server task spawned and no connection served.
C8_AllOrNothingStartup ==
    /\ ((\E i \in Binds : lst[i] # "none") \/ Len(conns) > 0 \/ req_counter > 0)
          => (servers = Binds /\ pc \notin {"load_certs", "load_key", "bind"})
    /\ (pc = "exit_err" /\ tpc = "none")
          => ((\A i \in Binds : lst[i] = "none") /\ Len(conns) = 0)

\* C8 witness: startup failed at a bind address after an earlier address
\* had been bound
C8_Witness == pc = "exit_err" /\ tpc = "none" /\ servers # {} /\ servers # Binds

\* C9: after a signal handled while the telemetry loop runs, the loop logs
\* at most the sample of the tick in progress.
C9_AtMostOneSampleAfterSignal == samplesAfterSignal <= 1

\* C10: run_server returns Ok only when every server task has returned
\* and start_counter has returned.
C10_OkOnlyAfterAllStopped ==
    pc = "exit_ok" =>
        /\ tpc = "done"
        /\ \A i \in Binds : lst[i] = "done_ok"

\* C10 witness: run_server returned Ok after a server task drained a
\* connection
C10_Witness == pc = "exit_ok" /\ Len(conns) > 0

\* a server task has left the running state: it is stopping or has ended
ListenerStopping(i) == lst[i] \notin {"spawned", "accepting"}

\* start_counter has left the running state: its shutdown branch is ready
\* or it has returned
CounterStopping == tpc = "done" \/ tsig # {}

\* C11: the first signal handled while the server runs moves every unit out
\* of the running state, so that no later signal causes a transition: once
\* such a signal was delivered, every server task and the telemetry loop
\* are stopping or stopped.
C11_FirstSignalStopsEveryUnit ==
    sigRunning => (CounterStopping /\ \A i \in Binds : ListenerStopping(i))

\* the keys of every encoding in a key file
KeysIn(file) ==
    UNION {{[der |-> [enc |-> e, n |-> i]] : i \in 1..file[e]} :
              e \in {"ec", "pkcs8", "rsa"}}

\* what load_private_key counts: the keys of the three decodings
KeyTotal == key_file.ec + key_file.pkcs8 + key_file.rsa

\* load_private_key has returned, having read the three decodings
KeyFileRead ==
    \/ key # NoKey
    \/ error \in {"no private keys found in file",
                  "expected a single private key in file"}

\* C12: once the three decodings are read, load_private_key succeeds
\* exactly when they hold one key in total, and returns that key; with no
\* key it fails with 'no private keys found', with more than one with
\* 'expected a single private key'.
C12_SingleKey ==
    KeyFileRead =>
        /\ (key # NoKey) <=> (KeyTotal = 1)
        /\ key # NoKey => key \in KeysIn(key_file)
        /\ KeyTotal = 0 => error = "no private keys found in file"
        /\ KeyTotal > 1 => error = "expected a single private key in file"

\* C12 witness: the one key of the file is an RSA key, found by the third
\* decoding, and was returned
C12_Witness == key # NoKey /\ key.der.enc = "rsa"

\* a valid IPv6 address in brackets, without a port
IsBracketedIpv6(s) ==
    /\ Len(s) >= 2
    /\ s[1] = "["
    /\ s[Len(s)] = "]"
    /\ IsIpv6(SubSeq(s, 2, Len(s) - 1))

\* a valid address without a port
IsPortless(s) == IsIpv4(s) \/ IsIpv6(s) \/ IsBracketedIpv6(s)

\* the socket address of a valid address without a port: the same IP, the
\* default port, the family of the address
WithDefaultPort(s) ==
    IF IsIpv4(s) THEN [family |-> "v4", ip |-> s, port |-> DEFAULT_PORT]
    ELSE IF IsIpv6(s) THEN [family |-> "v6", ip |-> s, port |-> DEFAULT_PORT]
    ELSE [family |-> "v6", ip |-> SubSeq(s, 2, Len(s) - 1),
          port |-> DEFAULT_PORT]

\* the errors parse_addr returns
ParseErrors ==
    {"failed to parse bind IP address including port",
     "failed to parse bind IP address"}

\* parse_addr returned an error for the bind string of this iteration
ParseRejected == pc = "exit_err" /\ idx \in Binds /\ error \in ParseErrors

\* C13: for a bind string that is a valid IPv4 address, a valid IPv6
\* address or a valid bracketed IPv6 address without a port, parse_addr
\* returns the socket address with the same IP, port DEFAULT_PORT and the
\* family of the address, and never an error.
C13_DefaultPortAdded ==
    /\ \A i \in servers :
           IsPortless(bind[i]) => addrs[i] = WithDefaultPort(bind[i])
    /\ ParseRejected => ~IsPortless(bind[idx])

\* C13 witness: an IPv6 address without brackets was bound, after the
\* attempt as IPv4 had failed
C13_Witness ==
    \E i \in servers : IsIpv6(bind[i]) /\ addrs[i].family = "v6"

\* a string with more than one colon and no brackets
ManyColonsNoBrackets(s) ==
    /\ matches_count(s, ":") > 1
    /\ matches_count(s, "[") = 0
    /\ matches_count(s, "]") = 0

\* C14, as stated: parse_addr rejects every bind string with more than one
\* colon and no brackets, so that no such string is ever bound.
C14_ManyColonsRejected ==
    \A i \in servers : ~ManyColonsNoBrackets(bind[i])

\* C14, amended: a bind string with more than one colon and no brackets is
\* accepted only when it is a valid IPv6 address, and then as that address
\* with the default port; every other such string is rejected with an
\* error.
C14_ManyColonsOnlyIpv6 ==
    \A i \in servers :
        ManyColonsNoBrackets(bind[i]) =>
            /\ IsIpv6(bind[i])
            /\ addrs[i] = [family |-> "v6", ip |-> bind[i],
                           port |-> DEFAULT_PORT]

\* C14 witness: a string with more than one colon and no brackets was
\* rejected
C14_Witness == ParseRejected /\ ManyColonsNoBrackets(bind[idx])

\* the certificate file can be read and holds no certificate
EmptyCertFile == cert_file.pem = "ok" /\ cert_file.certs = <<>>

\* C15: when the certificate file parses to an empty certificate sequence,
\* load_certs fails and run_server returns the error before any address is
\* bound.
C15_EmptyChainAborts ==
    EmptyCertFile =>
        /\ pc \in {"load_certs", "exit_err"}
        /\ certs = NoCerts
        /\ servers = {}

\* C16: every connection accepted by any server task causes exactly one
\* increment, made when the service of the connection is created: the
\* counter equals the number of connections accepted, whatever number of
\* requests each connection carried.
C16_OneIncrementPerConnection ==
    /\ req_counter = Len(conns)
    /\ \A i \in Binds :
           Cardinality({c \in 1..Len(conns) : conns[c].lst = i}) <= req_counter

\* C16 witness: two server tasks accepted a connection each; one
\* connection carried no request, the other as many as a connection may
C16_Witness ==
    \E c, d \in 1..Len(conns) :
        /\ conns[c].lst # conns[d].lst
        /\ conns[c].reqs = 0
        /\ conns[d].reqs = MaxReqs

\* the connections on which a response was sent
Responded == {c \in 1..Len(conns) : conns[c].reqs > 0}

\* C17: the increment made for a connection precedes every response on
\* that connection: the number of connections on which a response was sent
\* never exceeds the counter.
C17_IncrementBeforeResponse == Cardinality(Responded) <= req_counter

\* C17 witness: connections of two server tasks have each been answered
\* and the counter is no larger than their number
C17_Witness ==
    /\ Cardinality(Responded) = req_counter
    /\ \E c, d \in Responded : conns[c].lst # conns[d].lst

\* C18: a connection whose peer address cannot be obtained is terminated:
\* no response is sent on it.
C18_NoPeerAddressTerminates ==
    \A c \in 1..Len(conns) :
        ~conns[c].io_some => (conns[c].reqs = 0 /\ conns[c].bodies = {})

\* C19: a signal handled while the server runs makes every server task
\* begin its graceful shutdown, whatever the telemetry loop and the other
\* server tasks have done; a notified server task can always take its step
\* into graceful shutdown.
C19_StopFannedOut ==
    /\ sigRunning => \A i \in Binds : ListenerStopping(i)
    /\ \A i \in Binds :
           (lst[i] = "notified" /\ ~Terminal) => ENABLED ListenerShutdown(i)

\* C19 witness: a server task is in graceful shutdown while another has not
\* begun and start_counter has not observed the signal
C19_Witness ==
    /\ sigRunning
    /\ tpc # "done"
    /\ tsig = {}
    /\ \E i, j \in Binds : lst[i] = "draining" /\ lst[j] = "notified"

\* C20: the subtractions of the telemetry loop never go below zero: the
\* count of the previous tick is at most the counter, the elapsed time kept
\* from the previous tick is at most the time elapsed since the start, and
\* neither difference computed at a tick is negative.
C20_NoUnderflow ==
    /\ prev_total_requests <= req_counter
    /\ prev_elapsed_time <= now - start_time
    /\ prev_elapsed_time >= 0
    /\ lastSample.diff >= 0

\* C20 witness: a third tick is computed with both subtrahends above zero,
\* after a tick that counted a connection
C20_Witness ==
    /\ lastSample.n >= 2
    /\ lastSample.diff >= 1
    /\ tpc = "compute"
    /\ prev_total_requests >= 1
    /\ prev_elapsed_time >= 1
====
